---------------------------- MODULE Spec2Model ----------------------------
(* A model of clean_bib.py: the similarity scorer, the per-field smart     *)
(* update, the DOI search, the field reconciler and the per-record loop.   *)
(*                                                                         *)
(* Python strings are sequences of one-character strings, so that          *)
(* lower(), replace(), f-string concatenation and SequenceMatcher act on   *)
(* characters.  Python's None is the one-element sequence None, whose      *)
(* element is not a character; it is falsy like the empty string.          *)
EXTENDS Integers, Sequences, FiniteSets, TLC

VARIABLES
    entries,          \* db.entries: the parsed input records
    idx,              \* position of the for loop of main in db.entries
    pc,               \* where main stands
    doi,              \* main's local doi
    metadata,         \* main's local metadata
    cleaned_entries,  \* main's list cleaned_entries
    search_calls,     \* per record: calls of find_doi_by_title_author
    fetch_calls,      \* per record: calls of fetch_metadata_from_doi
    call,             \* arguments of a function called on its own
    ret               \* what that function returned

vars == <<entries, idx, pc, doi, metadata, cleaned_entries,
          search_calls, fetch_calls, call, ret>>

pipeline_vars == <<entries, idx, pc, doi, metadata, cleaned_entries,
                   search_calls, fetch_calls>>

-----------------------------------------------------------------------------
(* Strings *)

None == <<"None">>

Falsy(x) == x = None \/ x = << >>

\* str.lower() on one character
LowerChar(c) ==
    CASE c = "A" -> "a"
      [] c = "B" -> "b"
      [] c = "C" -> "c"
      [] c = "D" -> "d"
      [] OTHER -> c

lower(s) == [k \in 1..Len(s) |-> LowerChar(s[k])]

Min(x, y) == IF x <= y THEN x ELSE y

SetMax(S) == CHOOSE x \in S : \A y \in S : y <= x

SetMin(S) == CHOOSE x \in S : \A y \in S : x <= y

-----------------------------------------------------------------------------
(* difflib.SequenceMatcher(None, a, b).ratio(), no junk, strings far below *)
(* the 200 characters at which autojunk starts.                            *)

\* a[i..i+k-1] = b[j..j+k-1]
BlockAt(a, b, i, j, k) == \A d \in 0..(k - 1) : a[i + d] = b[j + d]

\* find_longest_match(alo, ahi, blo, bhi) on the inclusive ranges
\* a[alo..ahi], b[blo..bhi]: the longest block, of those the one starting
\* earliest in a, of those the one starting earliest in b; <<0,0,0>> if none.
find_longest_match(a, b, alo, ahi, blo, bhi) ==
    LET Sizes(i, j) == {k \in 1..Min(ahi - i + 1, bhi - j + 1) : BlockAt(a, b, i, j, k)}
        AllSizes == UNION {Sizes(i, j) : i \in alo..ahi, j \in blo..bhi}
    IN  IF AllSizes = {} THEN <<0, 0, 0>>
        ELSE LET k  == SetMax(AllSizes)
                 i  == SetMin({x \in alo..ahi : \E y \in blo..bhi : k \in Sizes(x, y)})
                 j  == SetMin({y \in blo..bhi : k \in Sizes(i, y)})
             IN  <<i, j, k>>

\* get_matching_blocks(): the total size of the blocks found by matching the
\* longest block and then, recursively, the pieces left and right of it.
RECURSIVE matched(_, _, _, _, _, _)
matched(a, b, alo, ahi, blo, bhi) ==
    IF alo > ahi \/ blo > bhi THEN 0
    ELSE LET m == find_longest_match(a, b, alo, ahi, blo, bhi)
         IN  IF m[3] = 0 THEN 0
             ELSE m[3]
                  + matched(a, b, alo, m[1] - 1, blo, m[2] - 1)
                  + matched(a, b, m[1] + m[3], ahi, m[2] + m[3], bhi)

\* ratio() as the fraction <<numerator, denominator>>: 2.0*matches/length,
\* and 1.0 when both strings are empty (_calculate_ratio).
ratio(a, b) ==
    LET length == Len(a) + Len(b)
    IN  IF length = 0 THEN <<1, 1>>
        ELSE <<2 * matched(a, b, 1, Len(a), 1, Len(b)), length>>

\* p > q, p >= q on fractions with positive denominators
FracGt(p, q) == p[1] * q[2] > q[1] * p[2]

FracGe(p, q) == p[1] * q[2] >= q[1] * p[2]

\* the default threshold=0.7, and the 0.7 of find_doi_by_title_author
DefaultThreshold == <<7, 10>>

\* the highest_similarity = 0 of find_doi_by_title_author
Zero == <<0, 1>>

-----------------------------------------------------------------------------
(* is_similar and smart_update *)

is_similar(a, b, threshold) == FracGe(ratio(lower(a), lower(b)), threshold)

\* smart_update without the case-insensitive equality test of lines 18-19
smart_update_no_case_test(field, old_val, new_val, threshold) ==
    IF Falsy(new_val) THEN old_val
    ELSE IF Falsy(old_val) THEN new_val
    ELSE IF is_similar(old_val, new_val, threshold) THEN new_val
    ELSE old_val

smart_update(field, old_val, new_val, threshold) ==
    IF Falsy(new_val) THEN old_val
    ELSE IF Falsy(old_val) THEN new_val
    ELSE IF lower(old_val) = lower(new_val) THEN old_val
    ELSE IF is_similar(old_val, new_val, threshold) THEN new_val
    ELSE old_val


-----------------------------------------------------------------------------
(* JSON values.  A bibliographic field, a DOI and a JSON string that is    *)
(* only ever used as text are plain strings; where the code asks for the  *)
(* type of a value (isinstance, indexing, "in") the value is tagged.       *)

Str(s) == [str |-> s]

List(l) == [list |-> l]

Dict(d) == [dict |-> d]

Num(n) == [num |-> n]

isinstance_list(x) == "list" \in DOMAIN x

isinstance_dict(x) == "dict" \in DOMAIN x

\* d.get(key, default) on a mapping
Get(d, key, default) == IF key \in DOMAIN d THEN d[key] ELSE default

\* truth value of a tagged string or list
Truthy(x) == IF isinstance_list(x) THEN x.list # << >> ELSE x.str # << >>

\* x[0] on a non-empty tagged list or string
First(x) == IF isinstance_list(x) THEN x.list[1] ELSE <<x.str[1]>>

\* the idiom of lines 47-48, 52-53, 92-93, 168-171:
\*   if isinstance(t, list): t = t[0] if t else ""
first_if_list(t) ==
    IF isinstance_list(t)
    THEN (IF t.list # << >> THEN t.list[1] ELSE << >>)
    ELSE t.str

\* f"{title}: {subtitle}" if subtitle else title
with_subtitle(title, subtitle) ==
    IF subtitle # << >> THEN title \o <<":", " ">> \o subtitle ELSE title

DigitChars == <<"0", "1", "2", "3", "4", "5", "6", "7", "8", "9">>

\* str(n) for an integer n >= 0
RECURSIVE str_int(_)
str_int(n) ==
    IF n < 10 THEN <<DigitChars[n + 1]>>
    ELSE str_int(n \div 10) \o <<DigitChars[(n % 10) + 1]>>

-----------------------------------------------------------------------------
(* fetch_metadata_from_doi: the response is the registry's to choose *)

NoMetadata == [none |-> TRUE]

\* the value of a response that raised, timed out or was not a 200 is None
fetch_metadata_from_doi(d, response) ==
    IF response.raised THEN NoMetadata
    ELSE IF response.status_code = 200 THEN response.json
    ELSE NoMetadata

\* "if metadata": None and the empty mapping are falsy
metadata_truthy(m) == m # NoMetadata /\ DOMAIN m # {}

-----------------------------------------------------------------------------
(* find_doi_by_title_author *)

\* lines 46-54: the title of one search candidate
full_title(item) ==
    with_subtitle(first_if_list(Get(item.dict, "title", Str(<< >>))),
                  first_if_list(Get(item.dict, "subtitle", Str(<< >>))))

\* lines 42-59 with "similarity >= highest_similarity" at line 57
RECURSIVE best_match_last_tie(_, _, _)
best_match_last_tie(title, items, n) ==
    IF n = 0 THEN <<0, Zero>>
    ELSE LET before == best_match_last_tie(title, items, n - 1)
             similarity == ratio(lower(title), lower(full_title(items[n])))
         IN  IF FracGe(similarity, before[2]) THEN <<n, similarity>> ELSE before

\* lines 42-59: the loop over items; the state of the loop is
\* <<index of best_match or 0, highest_similarity>>
RECURSIVE best_match(_, _, _)
best_match(title, items, n) ==
    IF n = 0 THEN <<0, Zero>>
    ELSE LET before == best_match(title, items, n - 1)
             similarity == ratio(lower(title), lower(full_title(items[n])))
         IN  IF FracGt(similarity, before[2]) THEN <<n, similarity>> ELSE before

\* lines 39-68: an exception anywhere in the try block (the request, the
\* JSON, an item that is no mapping) is printed and None is returned
find_doi_by_title_author(title, author, response) ==
    IF response.raised THEN None
    ELSE IF \E n \in 1..Len(response.items) : ~isinstance_dict(response.items[n]) THEN None
    ELSE LET best == best_match(title, response.items, Len(response.items))
         IN  IF best[1] # 0 /\ DOMAIN response.items[best[1]].dict # {}
                /\ FracGt(best[2], DefaultThreshold)
             THEN Get(response.items[best[1]].dict, "DOI", None)
             ELSE None

-----------------------------------------------------------------------------
(* clean_entry *)

\* lines 71-73 with the kind reset to the default instead of copied
cleaned_head_default_kind(entry) ==
    ("ENTRYTYPE" :> "misc") @@ ("ID" :> Get(entry, "ID", 0))

\* lines 71-73
cleaned_head(entry) ==
    ("ENTRYTYPE" :> Get(entry, "ENTRYTYPE", "misc")) @@ ("ID" :> Get(entry, "ID", 0))

\* " and ".join(parts)
RECURSIVE join_and(_)
join_and(parts) ==
    IF parts = << >> THEN << >>
    ELSE IF Len(parts) = 1 THEN parts[1]
    ELSE parts[1] \o <<" ", "a", "n", "d", " ">> \o join_and(Tail(parts))

\* line 81: the authors that have both name parts, rendered "Family, Given"
RECURSIVE rendered_authors(_)
rendered_authors(authors) ==
    IF authors = << >> THEN << >>
    ELSE LET a == authors[1].dict
         IN  (IF "family" \in DOMAIN a /\ "given" \in DOMAIN a
              THEN << a["family"] \o <<",", " ">> \o a["given"] >>
              ELSE << >>)
             \o rendered_authors(Tail(authors))

\* line 81 raises TypeError at an author that is no container
author_raises(meta) ==
    /\ "author" \in DOMAIN meta
    /\ isinstance_list(meta["author"])
    /\ \E n \in 1..Len(meta["author"].list) :
           ~isinstance_dict(meta["author"].list[n])

\* lines 76-87
cleaned_author(entry, meta) ==
    LET old_author == Get(entry, "author", << >>)
    IN  IF "author" \in DOMAIN meta /\ isinstance_list(meta["author"])
        THEN smart_update("author", old_author,
                          join_and(rendered_authors(meta["author"].list)),
                          DefaultThreshold)
        ELSE old_author

\* lines 91-93: the title the reconciler compares and adopts
metadata_title(meta) == first_if_list(Get(meta, "title", Str(<< >>)))

\* line 94: the gate inside clean_entry
inner_gate(entry, meta) ==
    is_similar(Get(entry, "title", << >>), metadata_title(meta), DefaultThreshold)

\* line 97
cleaned_title(entry, meta) ==
    IF metadata_title(meta) = << >> THEN Get(entry, "title", << >>)
    ELSE metadata_title(meta)

\* lines 100-107: container-title, else collection-title, else the event's name
container_title(meta) ==
    LET c1 == Get(meta, "container-title", List(<< >>))
        c2 == IF ~Truthy(c1) /\ "collection-title" \in DOMAIN meta
              THEN meta["collection-title"] ELSE c1
        name == IF "event" \in DOMAIN meta /\ isinstance_dict(meta["event"])
                THEN Get(meta["event"].dict, "name", None) ELSE None
        c3 == IF ~Truthy(c2) /\ ~Falsy(name) THEN List(<<name>>) ELSE c2
    IN  IF Truthy(c3) THEN First(c3) ELSE None

\* lines 109-112
cleaned_container(entry, meta) ==
    LET kind == cleaned_head(entry)["ENTRYTYPE"]
    IN  IF kind = "article"
        THEN "journal" :> smart_update("journal", Get(entry, "journal", << >>),
                                       container_title(meta), DefaultThreshold)
        ELSE IF kind \in {"inproceedings", "incollection"}
        THEN "booktitle" :> smart_update("booktitle", Get(entry, "booktitle", << >>),
                                         container_title(meta), DefaultThreshold)
        ELSE << >>

\* lines 119, 125: "issued" in metadata and "date-parts" in metadata["issued"]
has_date_parts(meta) ==
    /\ "issued" \in DOMAIN meta
    /\ "date-parts" \in DOMAIN meta["issued"].dict

\* line 120 raises IndexError when date-parts or its first element is empty
year_raises(meta) ==
    /\ has_date_parts(meta)
    /\ LET parts == meta["issued"].dict["date-parts"]
       IN  IF parts = << >> THEN TRUE ELSE parts[1] = << >>

\* lines 118-120
new_year(meta) ==
    IF has_date_parts(meta)
    THEN str_int(meta["issued"].dict["date-parts"][1][1])
    ELSE None

months == << <<"J", "a", "n">>, <<"F", "e", "b">>, <<"M", "a", "r">>, <<"A", "p", "r">>,
             <<"M", "a", "y">>, <<"J", "u", "n">>, <<"J", "u", "l">>, <<"A", "u", "g">>,
             <<"S", "e", "p">>, <<"O", "c", "t">>, <<"N", "o", "v">>, <<"D", "e", "c">> >>

\* lines 124-132
new_month(meta) ==
    IF has_date_parts(meta)
    THEN LET date_parts == meta["issued"].dict["date-parts"][1]
         IN  IF Len(date_parts) > 1 /\ 1 <= date_parts[2] /\ date_parts[2] <= Len(months)
             THEN months[date_parts[2]] ELSE None
    ELSE None

\* str.replace("-", "--"): every hyphen becomes two
RECURSIVE replace_hyphens(_)
replace_hyphens(s) ==
    IF s = << >> THEN << >>
    ELSE (IF s[1] = "-" THEN <<"-", "-">> ELSE <<s[1]>>) \o replace_hyphens(Tail(s))

\* lines 137-139: the value offered to smart_update for one of
\* "volume", "issue", "page", "DOI"
new_val(meta, field) ==
    LET v == IF ~Falsy(Get(meta, field, None)) THEN meta[field] ELSE None
    IN  IF field = "page" /\ ~Falsy(v) THEN replace_hyphens(v) ELSE v

\* line 140
field_key(field) ==
    CASE field = "issue" -> "number"
      [] field = "DOI" -> "doi"
      [] OTHER -> field

\* lines 136-141
cleaned_field(entry, meta, field) ==
    field_key(field) :> smart_update(field_key(field),
                                     Get(entry, field_key(field), << >>),
                                     new_val(meta, field), DefaultThreshold)

\* clean_entry raises: line 81 before the title gate, line 120 after it
clean_entry_raises(entry, meta) ==
    \/ author_raises(meta)
    \/ inner_gate(entry, meta) /\ year_raises(meta)

\* lines 70-143, when nothing is raised
clean_entry(entry, meta) ==
    IF ~inner_gate(entry, meta) THEN entry
    ELSE cleaned_head(entry)
         @@ ("author" :> cleaned_author(entry, meta))
         @@ ("title" :> cleaned_title(entry, meta))
         @@ cleaned_container(entry, meta)
         @@ ("publisher" :> smart_update("publisher", Get(entry, "publisher", << >>),
                                         Get(meta, "publisher", None), DefaultThreshold))
         @@ ("year" :> smart_update("year", Get(entry, "year", << >>),
                                    new_year(meta), DefaultThreshold))
         @@ ("month" :> smart_update("month", Get(entry, "month", << >>),
                                     new_month(meta), DefaultThreshold))
         @@ cleaned_field(entry, meta, "volume")
         @@ cleaned_field(entry, meta, "issue")
         @@ cleaned_field(entry, meta, "page")
         @@ cleaned_field(entry, meta, "DOI")

-----------------------------------------------------------------------------
(* main: the inputs *)

MaxEntries == 2

S_ab == <<"a", "b">>

S_Ab == <<"A", "b">>

S_abc == <<"a", "b", "c">>

S_ab_c == <<"a", "b", ":", " ", "c">>

S_xy == <<"x", "y">>

S_c == <<"c">>

S_d1 == <<"1", "0", ".", "1">>

S_d2 == <<"1", "0", ".", "2">>

\* two titles of ten characters that share seven: ratio exactly 14/20
TenA == <<"a", "b", "c", "d", "e", "f", "g", "h", "i", "j">>

TenB == <<"a", "b", "c", "d", "e", "f", "g", "x", "y", "z">>

S_range == <<"1", "-", "2">>

S_range2 == <<"1", "-", "-", "2">>

\* what bibtexparser can hand over, but for the key, which is the position
RecordBodies ==
    { ("ENTRYTYPE" :> "article") @@ ("title" :> S_ab) @@ ("doi" :> S_d1)
          @@ ("author" :> <<"X", ",", " ", "Y", ".">>) @@ ("url" :> <<"u">>)
          @@ ("year" :> <<"2", "0", "1", "9">>),
      ("ENTRYTYPE" :> "inproceedings") @@ ("title" :> S_Ab) @@ ("pages" :> S_range2),
      ("ENTRYTYPE" :> "book") @@ ("doi" :> << >>) @@ ("publisher" :> <<"P">>),
      ("ENTRYTYPE" :> "article") @@ ("title" :> S_ab_c) @@ ("journal" :> <<"J">>)
          @@ ("doi" :> S_d2),
      ("ENTRYTYPE" :> "incollection") @@ ("title" :> S_abc) @@ ("doi" :> S_d1)
          @@ ("page" :> S_range2) @@ ("abstract" :> <<"t">>),
      ("ENTRYTYPE" :> "misc") @@ ("title" :> << >>),
      ("ENTRYTYPE" :> "article") @@ ("title" :> TenA) @@ ("doi" :> S_d2)
          @@ ("volume" :> <<"7">>) }

\* db.entries: every record has a kind and its own key
Databases ==
    UNION { { [k \in 1..n |-> ("ID" :> k) @@ bodies[k]] : bodies \in [1..n -> RecordBodies] }
            : n \in 0..MaxEntries }

\* CSL-JSON documents the registry may answer with
MetadataDocs ==
    { "title" :> Str(S_ab),
      ("title" :> List(<<S_ab>>)) @@ ("subtitle" :> List(<<S_c>>))
          @@ ("author" :> List(<< Dict(("family" :> <<"X">>) @@ ("given" :> <<"Y", "o">>)),
                                  Dict("family" :> <<"Z">>) >>))
          @@ ("container-title" :> List(<< <<"J", "n">> >>)) @@ ("publisher" :> <<"P">>)
          @@ ("issued" :> Dict("date-parts" :> << <<2020, 5>> >>))
          @@ ("volume" :> <<"7">>) @@ ("issue" :> <<"3">>) @@ ("page" :> S_range)
          @@ ("DOI" :> S_d1),
      ("title" :> Str(S_ab)) @@ ("issued" :> Dict("date-parts" :> << >>)),
      ("title" :> Str(S_ab)) @@ ("author" :> List(<< Num(5) >>)),
      ("title" :> Str(S_xy)) @@ ("author" :> List(<< Num(5) >>)) @@ ("publisher" :> <<"Q">>)
          @@ ("issued" :> Dict("date-parts" :> << << >> >>)) @@ ("page" :> S_range),
      ("publisher" :> <<"Q">>) @@ ("DOI" :> S_d2) @@ ("title" :> List(<< >>)),
      ("title" :> Str(S_ab)) @@ ("collection-title" :> List(<< <<"K">> >>))
          @@ ("event" :> Dict("name" :> <<"E">>)) @@ ("author" :> Str(<<"X">>))
          @@ ("issued" :> Dict("date-parts" :> << <<2021, 13>> >>)) @@ ("page" :> S_range2),
      ("title" :> Str(S_ab)) @@ ("subtitle" :> Str(S_c)) @@ ("event" :> Dict("name" :> <<"E">>))
          @@ ("issued" :> Dict("season" :> <<"s">>)) @@ ("container-title" :> Str(<< >>)),
      ("title" :> Str(TenB)) @@ ("publisher" :> <<"Q">>) @@ ("volume" :> <<"1", "7">>),
      << >> }

FetchResponses ==
    { [raised |-> TRUE, status_code |-> 0, json |-> NoMetadata],
      [raised |-> FALSE, status_code |-> 404, json |-> NoMetadata] }
    \cup { [raised |-> FALSE, status_code |-> 200, json |-> m] : m \in MetadataDocs }

\* answers of the search index to the query of main
SearchResponses ==
    { [raised |-> TRUE, items |-> << >>],
      [raised |-> FALSE, items |-> << >>],
      [raised |-> FALSE, items |-> << Dict(("title" :> List(<<S_ab>>)) @@ ("DOI" :> S_d1)) >>],
      [raised |-> FALSE, items |-> << Dict(("title" :> List(<<S_xy>>)) @@ ("DOI" :> S_d2)),
                                      Dict(("title" :> List(<< >>)) @@ ("DOI" :> S_d2)) >>] }

-----------------------------------------------------------------------------
(* main *)

\* author_field.split(" and ")[0]
split_first(s) ==
    LET sep  == <<" ", "a", "n", "d", " ">>
        hits == {k \in 1..(Len(s) - 4) : SubSeq(s, k, k + 4) = sep}
    IN  IF hits = {} THEN s ELSE SubSeq(s, 1, SetMin(hits) - 1)

\* lines 165-172 with the subtitle left out of the gated title
title_fetched_no_subtitle(meta) == first_if_list(Get(meta, "title", Str(<< >>)))

\* lines 165-172
title_fetched(meta) ==
    with_subtitle(first_if_list(Get(meta, "title", Str(<< >>))),
                  first_if_list(Get(meta, "subtitle", Str(<< >>))))

\* line 174
outer_gate(entry, meta) ==
    is_similar(Get(entry, "title", << >>), title_fetched(meta), DefaultThreshold)

Idle ==
    /\ call = << >>
    /\ ret = << >>

\* the position after the body of the loop has run for entries[idx]
next_pc == IF idx + 1 > Len(entries) THEN "write" ELSE "resolve_doi"

Init ==
    /\ entries \in Databases
    /\ idx = 1
    /\ pc = IF entries = << >> THEN "write" ELSE "resolve_doi"
    /\ doi = None
    /\ metadata = NoMetadata
    /\ cleaned_entries = << >>
    /\ search_calls = [k \in DOMAIN entries |-> 0]
    /\ fetch_calls = [k \in DOMAIN entries |-> 0]
    /\ Idle

\* lines 155-156: the record has a DOI
UseRecordDoi ==
    /\ pc = "resolve_doi"
    /\ ~Falsy(Get(entries[idx], "doi", None))
    /\ doi' = entries[idx]["doi"]
    /\ pc' = "fetch"
    /\ UNCHANGED <<entries, idx, metadata, cleaned_entries, search_calls, fetch_calls,
                   call, ret>>

\* lines 155-160: it has none, the search index is asked
SearchDoi ==
    /\ pc = "resolve_doi"
    /\ Falsy(Get(entries[idx], "doi", None))
    /\ \E response \in SearchResponses :
           LET title        == Get(entries[idx], "title", << >>)
               author_field == Get(entries[idx], "author", << >>)
               author       == IF author_field # << >> THEN split_first(author_field)
                               ELSE None
           IN  doi' = find_doi_by_title_author(title, author, response)
    /\ search_calls' = [search_calls EXCEPT ![idx] = @ + 1]
    /\ pc' = "fetch"
    /\ UNCHANGED <<entries, idx, metadata, cleaned_entries, fetch_calls, call, ret>>

\* line 162, a DOI is at hand
FetchMetadata ==
    /\ pc = "fetch"
    /\ ~Falsy(doi)
    /\ \E response \in FetchResponses :
           metadata' = fetch_metadata_from_doi(doi, response)
    /\ fetch_calls' = [fetch_calls EXCEPT ![idx] = @ + 1]
    /\ pc' = "reconcile"
    /\ UNCHANGED <<entries, idx, doi, cleaned_entries, search_calls, call, ret>>

\* line 162, no DOI
NoDoi ==
    /\ pc = "fetch"
    /\ Falsy(doi)
    /\ metadata' = NoMetadata
    /\ pc' = "reconcile"
    /\ UNCHANGED <<entries, idx, doi, cleaned_entries, search_calls, fetch_calls,
                   call, ret>>

\* lines 181-183
Unchanged ==
    /\ pc = "reconcile"
    /\ ~metadata_truthy(metadata)
    /\ cleaned_entries' = Append(cleaned_entries, entries[idx])
    /\ idx' = idx + 1
    /\ pc' = next_pc
    /\ UNCHANGED <<entries, doi, metadata, search_calls, fetch_calls, call, ret>>

\* lines 164-174, 178-180
Skipped ==
    /\ pc = "reconcile"
    /\ metadata_truthy(metadata)
    /\ ~outer_gate(entries[idx], metadata)
    /\ cleaned_entries' = Append(cleaned_entries, entries[idx])
    /\ idx' = idx + 1
    /\ pc' = next_pc
    /\ UNCHANGED <<entries, doi, metadata, search_calls, fetch_calls, call, ret>>

\* lines 164-177
Updated ==
    /\ pc = "reconcile"
    /\ metadata_truthy(metadata)
    /\ outer_gate(entries[idx], metadata)
    /\ ~clean_entry_raises(entries[idx], metadata)
    /\ cleaned_entries' = Append(cleaned_entries, clean_entry(entries[idx], metadata))
    /\ idx' = idx + 1
    /\ pc' = next_pc
    /\ UNCHANGED <<entries, doi, metadata, search_calls, fetch_calls, call, ret>>

\* line 175: clean_entry raises, nothing in main catches it, the process ends
\* with a traceback and no output file
Crash ==
    /\ pc = "reconcile"
    /\ metadata_truthy(metadata)
    /\ outer_gate(entries[idx], metadata)
    /\ clean_entry_raises(entries[idx], metadata)
    /\ pc' = "crashed"
    /\ UNCHANGED <<entries, idx, doi, metadata, cleaned_entries, search_calls,
                   fetch_calls, call, ret>>

\* lines 185-193: cleaned_entries is written, in its order
Write ==
    /\ pc = "write"
    /\ pc' = "done"
    /\ UNCHANGED <<entries, idx, doi, metadata, cleaned_entries, search_calls,
                   fetch_calls, call, ret>>

Next ==
    \/ UseRecordDoi
    \/ SearchDoi
    \/ FetchMetadata
    \/ NoDoi
    \/ Unchanged
    \/ Skipped
    \/ Updated
    \/ Crash
    \/ Write

Spec == Init /\ [][Next]_vars

-----------------------------------------------------------------------------
(* Properties of main *)

\* The contract of the similarity scorer: false when either string is empty,
\* else the ratio of the case-folded strings against the threshold.
similar(a, b, threshold) ==
    /\ a # << >>
    /\ b # << >>
    /\ FracGe(ratio(lower(a), lower(b)), threshold)

\* the fetched title of the design: title, or "title: subtitle"
Text(x) == IF "list" \in DOMAIN x
           THEN (IF Len(x.list) = 0 THEN << >> ELSE x.list[1])
           ELSE x.str

FetchedTitle(m) ==
    LET t == IF "title" \in DOMAIN m THEN Text(m["title"]) ELSE << >>
        s == IF "subtitle" \in DOMAIN m THEN Text(m["subtitle"]) ELSE << >>
    IN  IF Len(s) = 0 THEN t ELSE t \o <<":", " ">> \o s

OriginalTitle(e) == IF "title" \in DOMAIN e THEN e["title"] ELSE << >>

\* similarity of the case-folded strings, as a fraction
Similarity(a, b) == ratio(lower(a), lower(b))

\* the loop has finished with entries[idx - 1], and metadata still holds what
\* line 162 assigned for that record
AfterRecord == idx > 1 /\ pc \in {"resolve_doi", "fetch", "write", "done"}

LastIn == entries[idx - 1]

LastOut == cleaned_entries[idx - 1]

Terminated == pc \in {"done", "crashed"}

\* C1: a record for which no metadata document was obtained, or whose fetched
\* title has similarity below 0.7 to its original title, is emitted
\* field for field as it came in.
C1_PassThrough ==
    (AfterRecord
        /\ (\/ metadata = NoMetadata
            \/ FracGt(DefaultThreshold, Similarity(OriginalTitle(LastIn), FetchedTitle(metadata)))))
    => LastOut = LastIn

\* a document with mergeable fields was fetched for a record that has a DOI,
\* its title did not match, and the record went out as it came in
C1_Witness ==
    /\ AfterRecord
    /\ metadata # NoMetadata
    /\ "publisher" \in DOMAIN metadata
    /\ "page" \in DOMAIN metadata
    /\ "doi" \in DOMAIN LastIn
    /\ FracGt(DefaultThreshold, Similarity(OriginalTitle(LastIn), FetchedTitle(metadata)))
    /\ LastOut = LastIn

\* C2: the output has one record per input record, in the input's order,
\* each with the key and the kind of the input record at its position.
C2_KeyKindOrder ==
    /\ Len(cleaned_entries) <= Len(entries)
    /\ \A k \in 1..Len(cleaned_entries) :
           /\ cleaned_entries[k]["ID"] = entries[k]["ID"]
           /\ cleaned_entries[k]["ENTRYTYPE"] = entries[k]["ENTRYTYPE"]
    /\ pc = "done" => Len(cleaned_entries) = Len(entries)

\* a finished run of two records, the first updated, the second unchanged
C2_Witness ==
    /\ pc = "done"
    /\ Len(entries) >= 2
    /\ cleaned_entries[1] # entries[1]
    /\ cleaned_entries[2] = entries[2]
    /\ entries[1]["ENTRYTYPE"] # entries[2]["ENTRYTYPE"]

\* C4: a fault raised while one record is reconciled never aborts the batch.
C4_FaultCaught == pc # "crashed"

TargetFields == {"author", "title", "journal", "booktitle", "publisher", "year",
                 "month", "volume", "number", "page", "doi"}

\* C5: a reconciled record differs from the input only at target fields that
\* received a non-empty value; every other input field is kept, and no field
\* absent from the input appears with an empty value.
C5_Frame ==
    (AfterRecord /\ metadata # NoMetadata
        /\ similar(OriginalTitle(LastIn), FetchedTitle(metadata), DefaultThreshold))
    => /\ \A f \in DOMAIN LastIn :
              /\ f \in DOMAIN LastOut
              /\ LastOut[f] # LastIn[f] => (f \in TargetFields /\ LastOut[f] # << >>)
       /\ \A f \in (DOMAIN LastOut) \ (DOMAIN LastIn) : LastOut[f] # << >>

\* C9: the title of a record that passed the gate is
\* smartUpdate(original title, fetched title, 0.7), and the gate inside the
\* reconciler decides as the gate of the pipeline does.
C9_TitleSmartUpdate ==
    (AfterRecord /\ metadata # NoMetadata
        /\ similar(OriginalTitle(LastIn), FetchedTitle(metadata), DefaultThreshold))
    => /\ "title" \in DOMAIN LastOut
       /\ LastOut["title"] = smart_update("title", OriginalTitle(LastIn),
                                          FetchedTitle(metadata), DefaultThreshold)
       /\ inner_gate(LastIn, metadata) = outer_gate(LastIn, metadata)

\* C10: in a run that has ended, every record reached DONE exactly once, the
\* search was called at most once and only for records without a doi field,
\* the lookup by identifier at most once and only with a DOI of the record or
\* of the search, nothing was retried, and no record was looked up before
\* the one ahead of it was done.
C10_RunOrder ==
    Terminated =>
        /\ Len(cleaned_entries) = Len(entries)
        /\ \A k \in DOMAIN entries :
               /\ search_calls[k] <= 1
               /\ fetch_calls[k] <= 1
               /\ search_calls[k] = 1 => "doi" \notin DOMAIN entries[k]
               /\ fetch_calls[k] = 1 => ("doi" \in DOMAIN entries[k] \/ search_calls[k] = 1)
               /\ search_calls[k] + fetch_calls[k] > 0 => k <= Len(cleaned_entries) + 1

-----------------------------------------------------------------------------
(* is_similar and smart_update called on their own *)

MaxLen == 3

Alphabet == {"a", "A", "b"}

Strings == UNION {[1..n -> Alphabet] : n \in 0..MaxLen}

Thresholds == {DefaultThreshold, <<17, 20>>}

NotReturned == [returned |-> FALSE, fn |-> "", value |-> << >>, similar |-> FALSE]

PipelineIdle ==
    /\ entries = << >>
    /\ idx = 0
    /\ pc = "idle"
    /\ doi = None
    /\ metadata = [none |-> TRUE]
    /\ cleaned_entries = << >>
    /\ search_calls = << >>
    /\ fetch_calls = << >>

InitSmart ==
    /\ PipelineIdle
    /\ \E o \in Strings \cup {TenA}, n \in Strings \cup {TenB, None}, t \in Thresholds :
           call = [old_val |-> o, new_val |-> n, threshold |-> t]
    /\ ret = NotReturned

CallSmartUpdate ==
    /\ ~ret.returned
    /\ ret' = [returned |-> TRUE, fn |-> "smart_update",
               value |-> smart_update("field", call.old_val, call.new_val, call.threshold),
               similar |-> FALSE]
    /\ UNCHANGED <<call, pipeline_vars>>

CallIsSimilar ==
    /\ ~ret.returned
    /\ call.new_val # None
    /\ ret' = [returned |-> TRUE, fn |-> "is_similar", value |-> << >>,
               similar |-> is_similar(call.old_val, call.new_val, call.threshold)]
    /\ UNCHANGED <<call, pipeline_vars>>

NextSmart == CallSmartUpdate \/ CallIsSimilar

SpecSmart == InitSmart /\ [][NextSmart]_vars

-----------------------------------------------------------------------------
(* Properties of smart_update and is_similar *)

\* C3: smart_update returns old or new and nothing else: old when new is
\* empty, new when only old is empty, old when the two are equal ignoring
\* case, and otherwise new exactly when similar(old, new, threshold).
C3_SmartUpdate ==
    (ret.returned /\ ret.fn = "smart_update") =>
        LET o == call.old_val
            n == call.new_val
            v == ret.value
        IN  /\ v = o \/ v = n
            /\ Falsy(n) => v = o
            /\ (~Falsy(n) /\ Falsy(o)) => v = n
            /\ (~Falsy(n) /\ ~Falsy(o) /\ lower(o) = lower(n)) => v = o
            /\ (~Falsy(n) /\ ~Falsy(o) /\ lower(o) # lower(n)) =>
                   ((v = n) <=> similar(o, n, call.threshold))

\* a similar, not equal pair at the 0.7 boundary was replaced by new
C3_Witness ==
    /\ ret.returned
    /\ ret.fn = "smart_update"
    /\ call.old_val = TenA
    /\ call.new_val = TenB
    /\ call.threshold = DefaultThreshold
    /\ ret.value = TenB

\* C6: is_similar returns false whenever a or b is the empty string.
C6_EmptyNeverSimilar ==
    (ret.returned /\ ret.fn = "is_similar"
        /\ (call.old_val = << >> \/ call.new_val = << >>)) => ~ret.similar

-----------------------------------------------------------------------------
(* find_doi_by_title_author called on its own *)

MaxItems == 2

Candidates ==
    { Dict(("title" :> List(<<S_ab>>)) @@ ("DOI" :> S_d1)),
      Dict(("title" :> List(<<S_Ab>>)) @@ ("DOI" :> S_d2)),
      Dict(("title" :> List(<<S_ab>>)) @@ ("subtitle" :> List(<<S_c>>))
           @@ ("DOI" :> <<"1", "0", ".", "3">>)),
      Dict(("title" :> List(<<TenB>>)) @@ ("DOI" :> <<"1", "0", ".", "4">>)),
      Dict(<< >>),
      Dict("title" :> List(<<S_abc>>)),
      Dict(("title" :> Str(S_xy)) @@ ("DOI" :> S_d2)),
      Num(0) }

ItemLists == UNION {[1..n -> Candidates] : n \in 0..MaxItems}

InitSearch ==
    /\ PipelineIdle
    /\ \E t \in {<< >>, S_ab, S_ab_c, S_abc, TenA}, a \in {None, <<"X">>} :
           \/ \E items \in ItemLists :
                  call = [title |-> t, author |-> a,
                          response |-> [raised |-> FALSE, items |-> items]]
           \/ call = [title |-> t, author |-> a,
                      response |-> [raised |-> TRUE, items |-> << >>]]
    /\ ret = NotReturned

CallFindDoi ==
    /\ ~ret.returned
    /\ ret' = [returned |-> TRUE, fn |-> "find_doi_by_title_author",
               value |-> find_doi_by_title_author(call.title, call.author, call.response),
               similar |-> FALSE]
    /\ UNCHANGED <<call, pipeline_vars>>

NextSearch == CallFindDoi

SpecSearch == InitSearch /\ [][NextSearch]_vars

\* the title of a candidate: its title, with ": subtitle" when it has one
CandidateTitle(item) == FetchedTitle(item.dict)

\* C7: the search returns the DOI of the first candidate of maximal
\* similarity, and only if that similarity exceeds 0.7; with no candidate,
\* a maximum of 0.7 or less, or a failed request or parse, it returns none.
C7_BestCandidate ==
    ret.returned =>
        LET items == call.response.items
            Failed == \/ call.response.raised
                      \/ \E n \in DOMAIN items : "dict" \notin DOMAIN items[n]
            Sim(n) == Similarity(call.title, CandidateTitle(items[n]))
            IsMax(n) == \A j \in DOMAIN items : FracGe(Sim(n), Sim(j))
        IN  IF Failed \/ items = << >> THEN ret.value = None
            ELSE LET n == CHOOSE k \in DOMAIN items :
                              IsMax(k) /\ \A j \in 1..(k - 1) : ~IsMax(j)
                 IN  IF FracGt(Sim(n), DefaultThreshold)
                     THEN ret.value = (IF "DOI" \in DOMAIN items[n].dict
                                       THEN items[n].dict["DOI"] ELSE None)
                     ELSE ret.value = None

\* two candidates tie at the maximum and the DOI of the first is returned
C7_Witness ==
    /\ ret.returned
    /\ call.title = S_ab
    /\ Len(call.response.items) = 2
    /\ call.response.items[1] = Dict(("title" :> List(<<S_ab>>)) @@ ("DOI" :> S_d1))
    /\ call.response.items[2] = Dict(("title" :> List(<<S_Ab>>)) @@ ("DOI" :> S_d2))
    /\ ret.value = S_d1

-----------------------------------------------------------------------------
(* The page value of lines 137-139 computed on its own *)

MaxPageLen == 4

PageChars == {"1", "2", "-"}

Pages ==
    UNION {[1..n -> PageChars] : n \in 0..MaxPageLen}
    \cup { <<"1", "2", "3", "-", "1", "3", "0">>, <<"1", "2", "3", "-", "-", "1", "3", "0">> }

InitPage ==
    /\ PipelineIdle
    /\ \E p \in Pages : call = [metadata |-> ("page" :> p)]
    /\ ret = NotReturned

CallNewVal ==
    /\ ~ret.returned
    /\ ret' = [returned |-> TRUE, fn |-> "new_val",
               value |-> new_val(call.metadata, "page"), similar |-> FALSE]
    /\ UNCHANGED <<call, pipeline_vars>>

NextPage == CallNewVal

SpecPage == InitPage /\ [][NextPage]_vars

IsNumber(s) == s # << >> /\ \A k \in DOMAIN s : \E d \in DOMAIN DigitChars : s[k] = DigitChars[d]

IsHyphens(s) == \A k \in DOMAIN s : s[k] = "-"

\* C8: a page range, written with one hyphen or already with two, is offered
\* to smart_update with exactly two hyphens between its numbers.
C8_PageRange ==
    ret.returned =>
        LET p == call.metadata["page"]
        IN  \A k \in 1..Len(p), h \in 1..2 :
                LET left  == SubSeq(p, 1, k)
                    mid   == SubSeq(p, k + 1, k + h)
                    right == SubSeq(p, k + h + 1, Len(p))
                IN  (k + h < Len(p) /\ IsNumber(left) /\ IsHyphens(mid) /\ IsNumber(right))
                    => ret.value = left \o <<"-", "-">> \o right

=============================================================================
